---- MODULE Spec2Model ----
(***************************************************************************)
(* Model of the third-party notices generator                              *)
(* (scripts/generate_third_party_notices.py) and of its drift checker      *)
(* (scripts/check_third_party_notices.py).                                 *)
(*                                                                         *)
(* A Python str is a sequence of one-character strings, so that strip(),   *)
(* lower(), re.sub() and the f-string concatenations are computed          *)
(* character by character.  Fixed message texts that the code never takes  *)
(* apart (notes) are one-element sequences holding the whole text.         *)
(***************************************************************************)
EXTENDS Integers, Sequences, FiniteSets, TLC

VARIABLES
    csprojs,        \* the files root.glob("src/**/*.csproj") yields, in glob order
    third_party,    \* root/third_party: NoDir, or the set of its directory entries
    registry,       \* the (mocked) nuget.org: URL -> response, fixed once asked
    licenses_dir,   \* LICENSES_DIR: file name -> file body
    notice_file,    \* NOTICE_PATH: NoFile, or the rows of the report's table
    pc,             \* position of generate()
    packages,       \* generate(): local `packages`
    components,     \* generate(): local `components`
    idx,            \* generate(): index of the running for loop
    run_start,      \* history: the output files when the current run began
    runs,           \* history: number of runs of generate() begun
    last_out,       \* history: the output of the last completed run, not valid
                    \* once the inputs were edited
    prev_out,       \* history: last_out as it was when the last run completed
    f_resp,         \* fetch_nuspec_metadata alone: the response to its request
    f_out,          \* fetch_nuspec_metadata alone: <<>>, then <<how the call ended>>
    chk_pc,         \* position of the drift checker's main()
    chk_gen,        \* main(): `gen`, the generator's CompletedProcess
    chk_diff,       \* main(): `diff`
    chk_others,     \* main(): `others`
    chk_ran,        \* history: the subprocesses run so far, in order
    chk_stdout,     \* what main() wrote to its standard output
    chk_tree,       \* the working tree after the generator ran: whether a tracked
                    \* output file differs from the index, and the untracked files
    chk_ret         \* <<>>, then <<main()'s return value>>

gen_vars == <<csprojs, third_party, registry, licenses_dir, notice_file, pc,
              packages, components, idx, run_start, runs, last_out, prev_out>>
fetch_vars == <<f_resp, f_out>>
chk_vars == <<chk_pc, chk_gen, chk_diff, chk_others, chk_ran, chk_stdout, chk_tree,
              chk_ret>>
vars == <<gen_vars, fetch_vars, chk_vars>>

----------------------------------------------------------------------------
(* Python strings *)

\* Python's None
None == <<"<None>">>

\* bool(x) of an optional string: None and "" are false
Truthy(x) == x # None /\ x # <<>>

\* x or y
Or(x, y) == IF Truthy(x) THEN x ELSE y

UpperAlpha == <<"A","B","C","D","E","F","G","H","I","J","K","L","M",
                "N","O","P","Q","R","S","T","U","V","W","X","Y","Z">>
LowerAlpha == <<"a","b","c","d","e","f","g","h","i","j","k","l","m",
                "n","o","p","q","r","s","t","u","v","w","x","y","z">>
Digits == <<"0","1","2","3","4","5","6","7","8","9">>

\* The characters of the model in code point order
AsciiOrder == <<"\n", " ", "-", ".", "/">> \o Digits \o <<":", "@">> \o UpperAlpha
              \o <<"_">> \o LowerAlpha

Range(s) == {s[i] : i \in DOMAIN s}

Ord(c) == CHOOSE i \in DOMAIN AsciiOrder : AsciiOrder[i] = c

Whitespace == {" ", "\n"}

\* str.lower(), one character
LowerChar(c) ==
    IF \E i \in DOMAIN UpperAlpha : UpperAlpha[i] = c
    THEN LowerAlpha[CHOOSE i \in DOMAIN UpperAlpha : UpperAlpha[i] = c]
    ELSE c

\* str.lower()
Lower(s) == [i \in DOMAIN s |-> LowerChar(s[i])]

RECURSIVE LStrip(_)
LStrip(s) == IF s # <<>> /\ Head(s) \in Whitespace THEN LStrip(Tail(s)) ELSE s

RECURSIVE RStrip(_)
RStrip(s) ==
    IF s # <<>> /\ s[Len(s)] \in Whitespace THEN RStrip(SubSeq(s, 1, Len(s) - 1)) ELSE s

\* str.strip()
Strip(s) == RStrip(LStrip(s))

\* a < b and a <= b on str: lexicographic by code point
RECURSIVE StrLess(_, _)
StrLess(a, b) ==
    IF b = <<>> THEN FALSE
    ELSE IF a = <<>> THEN TRUE
    ELSE IF Head(a) # Head(b) THEN Ord(Head(a)) < Ord(Head(b))
    ELSE StrLess(Tail(a), Tail(b))

\* a < b on tuples of str
RECURSIVE TupleLess(_, _)
TupleLess(a, b) ==
    IF b = <<>> THEN FALSE
    ELSE IF a = <<>> THEN TRUE
    ELSE IF Head(a) # Head(b) THEN StrLess(Head(a), Head(b))
    ELSE TupleLess(Tail(a), Tail(b))

\* The orders in which a set (or a directory, or a glob) may be iterated
Enumerations(S) ==
    {f \in [1..Cardinality(S) -> S] : \A i, j \in DOMAIN f : i # j => f[i] # f[j]}

\* sorted() on <<key, value>> pairs: stable, a pair goes after every pair whose
\* key is not greater than its own
RECURSIVE InsertByKey(_, _)
InsertByKey(sorted, x) ==
    IF sorted = <<>> THEN <<x>>
    ELSE IF TupleLess(x[1], Head(sorted)[1]) THEN <<x>> \o sorted
    ELSE <<Head(sorted)>> \o InsertByKey(Tail(sorted), x)

RECURSIVE SortPairs(_)
SortPairs(seq) ==
    IF seq = <<>> THEN <<>>
    ELSE InsertByKey(SortPairs(SubSeq(seq, 1, Len(seq) - 1)), seq[Len(seq)])

\* sorted(seq, key=...), keys[i] being the key of seq[i]
SortedBy(seq, keys) ==
    LET pairs == [i \in DOMAIN seq |-> <<keys[i], seq[i]>>]
        done == SortPairs(pairs)
    IN  [i \in DOMAIN seq |-> done[i][2]]

----------------------------------------------------------------------------
(* Collector *)

\* How a function call ended: it returned a value, or an exception left it
Returned(v) == [raised |-> FALSE, value |-> v]
Raised == [raised |-> TRUE, value |-> <<>>]

\* One <PackageReference> node: its Include and Version attributes and the text
\* of its nested <Version> element, None where absent
Ref(include, version, version_elem) ==
    [Include |-> include, Version |-> version, VersionElem |-> version_elem]

\* The pair read_csproj_packages adds for a node
PackagePair(include, version) == <<Strip(include), Strip(version)>>

\* node.attrib.get("Version") or (node.findtext("Version") or "")
NodeVersion(node) == Or(node.Version, Or(node.VersionElem, <<>>))

\* The set `packages` after the loops over every file and every node
PackageSet(files) ==
    UNION {{PackagePair(files[i].refs[j].Include, NodeVersion(files[i].refs[j])) :
                j \in {k \in DOMAIN files[i].refs :
                        /\ Truthy(files[i].refs[k].Include)
                        /\ Truthy(NodeVersion(files[i].refs[k]))}} :
           i \in DOMAIN files}

PackageKey(x) == <<Lower(x[1]), x[2]>>

\* The pairs of the nodes of one file, in document order
RECURSIVE RefPairs(_)
RefPairs(refs) ==
    IF refs = <<>> THEN <<>>
    ELSE LET n == Head(refs) IN
         (IF Truthy(n.Include) /\ Truthy(NodeVersion(n))
          THEN <<PackagePair(n.Include, NodeVersion(n))>> ELSE <<>>)
         \o RefPairs(Tail(refs))

RECURSIVE PackageList(_)
PackageList(files) ==
    IF files = <<>> THEN <<>> ELSE RefPairs(Head(files).refs) \o PackageList(Tail(files))

\* Faulty variant: `packages` is a list, a pair is appended each time it is met
read_csproj_packages_list(files) ==
    IF \E i \in DOMAIN files : ~files[i].well_formed
    THEN {Raised}
    ELSE {Returned(SortedBy(PackageList(files),
                              [i \in DOMAIN PackageList(files) |->
                                    PackageKey(PackageList(files)[i])]))}

\* read_csproj_packages: the results it can have, one per iteration order of
\* the set; {Raised} when ET.parse raises on a file
read_csproj_packages(files) ==
    IF \E i \in DOMAIN files : ~files[i].well_formed
    THEN {Raised}
    ELSE {Returned(SortedBy(order, [i \in DOMAIN order |-> PackageKey(order[i])])) :
            order \in Enumerations(PackageSet(files))}

----------------------------------------------------------------------------
(* Metadata fetcher *)

Str_UNKNOWN == <<"U","N","K","N","O","W","N">>
Str_expression == <<"e","x","p","r","e","s","s","i","o","n">>
Str_file == <<"f","i","l","e">>
Str_SPDX == <<"S","P","D","X",":"," ">>
Str_LicenseFile == <<"L","i","c","e","n","s","e"," ","f","i","l","e",":"," ">>
Note_Unable == <<"Unable to fetch nuspec metadata from nuget.org in this environment.">>

\* An element of the nuspec: absent, or its text and its type attribute
NoNode == [present |-> FALSE, text |-> None, type |-> None]
Node(text, type) == [present |-> TRUE, text |-> text, type |-> type]

\* What urlopen(url).read() does: raises, or returns bytes that ET.fromstring
\* parses or not
UrlError == [kind |-> "raises", well_formed |-> FALSE,
             projectUrl |-> NoNode, license |-> NoNode, licenseUrl |-> NoNode]
BadXml == [kind |-> "data", well_formed |-> FALSE,
           projectUrl |-> NoNode, license |-> NoNode, licenseUrl |-> NoNode]
Nuspec(project_url, license, license_url) ==
    [kind |-> "data", well_formed |-> TRUE,
     projectUrl |-> project_url, license |-> license, licenseUrl |-> license_url]

\* The parts of the URL that vary
nuspec_url(package_id, version) == <<Lower(package_id), Lower(version)>>

\* txt(xpath), on the node root.find(xpath) returns
txt(node) ==
    IF node.present /\ Truthy(node.text) THEN Strip(Or(node.text, <<>>)) ELSE <<>>

\* lic.attrib.get("type", "").lower()
LicenseType(lic) == Lower(IF lic.type = None THEN <<>> ELSE lic.type)

\* Faulty variant: the "file" branch is missing
LicenseName_NoFileBranch(lic) ==
    LET license_expr == txt(lic) IN
    IF Truthy(license_expr) /\ lic.present /\ LicenseType(lic) = Str_expression
    THEN Str_SPDX \o license_expr
    ELSE Or(license_expr, Str_UNKNOWN)

\* license_name, lines 82-88
LicenseName(lic) ==
    LET license_expr == txt(lic) IN
    IF Truthy(license_expr) /\ lic.present
    THEN IF LicenseType(lic) = Str_expression THEN Str_SPDX \o license_expr
         ELSE IF LicenseType(lic) = Str_file THEN Str_LicenseFile \o license_expr
         ELSE Or(license_expr, Str_UNKNOWN)
    ELSE Or(license_expr, Str_UNKNOWN)

\* fetch_nuspec_metadata, on the response `resp` of the request: the dict it
\* returns, or Raised when the exception leaves the function
fetch_nuspec_metadata(resp) ==
    IF resp.kind = "raises"
    THEN Returned([license_name |-> Str_UNKNOWN, license_url |-> <<>>,
                   homepage |-> <<>>, notes |-> Note_Unable])
    ELSE IF ~resp.well_formed
    THEN Raised
    ELSE Returned([license_name |-> LicenseName(resp.license),
                   license_url |-> txt(resp.licenseUrl),
                   homepage |-> txt(resp.projectUrl),
                   notes |-> <<>>])

----------------------------------------------------------------------------
(* Bundled-component scanner *)

LICENSE_FILE_CANDIDATES ==
    <<"LICENSE", "LICENSE.txt", "LICENSE.md", "COPYING", "COPYING.txt", "NOTICE",
      "NOTICE.txt">>

Str_bundled == <<"b","u","n","d","l","e","d">>
Str_Bundled == <<"B","u","n","d","l","e","d">>
Str_NuGet == <<"N","u","G","e","t">>
Str_SeeBundled == <<"See bundled files">>
Note_Copied == <<"License file copied from bundled component.">>
Note_NoLicense == <<"No bundled license file detected.">>

Component(name, version, source, license_name, license_url, homepage, notes) ==
    [name |-> name, version |-> version, source |-> source,
     license_name |-> license_name, license_url |-> license_url,
     homepage |-> homepage, notes |-> notes]

\* next((item / n for n in LICENSE_FILE_CANDIDATES if (item / n).exists()), None):
\* the first candidate name the directory holds, 0 for None
LicFile(item) ==
    LET hits == {k \in DOMAIN LICENSE_FILE_CANDIDATES :
                    LICENSE_FILE_CANDIDATES[k] \in DOMAIN item.files}
    IN  IF hits = {} THEN 0 ELSE CHOOSE k \in hits : \A h \in hits : k <= h

BundledComponent(item) ==
    Component(item.name, Str_bundled, Str_Bundled,
              IF LicFile(item) # 0 THEN Str_SeeBundled ELSE Str_UNKNOWN,
              <<>>, <<>>,
              IF LicFile(item) # 0 THEN Note_Copied ELSE Note_NoLicense)

DirKey(p) == <<Lower(p.name)>>

\* detect_bundled_components: the results it can have, one per order in which
\* iterdir() lists the directory
detect_bundled_components(tp) ==
    IF ~tp.exists
    THEN {<<>>}
    ELSE {[i \in DOMAIN order |->
                BundledComponent(
                    SortedBy(order, [k \in DOMAIN order |-> DirKey(order[k])])[i])] :
            order \in Enumerations({p \in tp.items : p.is_dir})}

----------------------------------------------------------------------------
(* Report writer *)

SafeChars == Range(UpperAlpha) \cup Range(LowerAlpha) \cup Range(Digits) \cup {".", "_", "-"}

\* re.sub(r"[^A-Za-z0-9._-]+", "_", value), left to right; in_run: the previous
\* character was replaced
RECURSIVE SubUnsafe(_, _)
SubUnsafe(value, in_run) ==
    IF value = <<>> THEN <<>>
    ELSE IF Head(value) \in SafeChars THEN <<Head(value)>> \o SubUnsafe(Tail(value), FALSE)
    ELSE (IF in_run THEN <<>> ELSE <<"_">>) \o SubUnsafe(Tail(value), TRUE)

safe_file_name(value) == SubUnsafe(value, FALSE)

\* file_name of write_license_file
file_name(component) ==
    component.source \o <<"_">> \o safe_file_name(component.name) \o <<"_">>
    \o safe_file_name(component.version) \o <<".",  "t", "x", "t">>

Str_NA == <<"N","/","A">>

\* "\n".join(lines).rstrip(): the lines without the trailing blank ones, the
\* last one right-stripped
RECURSIVE RStripLines(_)
RStripLines(lines) ==
    IF lines = <<>> THEN <<>>
    ELSE IF RStrip(lines[Len(lines)]) = <<>> THEN RStripLines(SubSeq(lines, 1, Len(lines) - 1))
    ELSE SubSeq(lines, 1, Len(lines) - 1) \o <<RStrip(lines[Len(lines)])>>

\* The text write_license_file writes, as its lines
LicenseBody(component, tp) ==
    LET head == << <<"Component: ">> \o component.name,
                   <<"Version: ">> \o component.version,
                   <<"Source: ">> \o component.source,
                   <<"License: ">> \o component.license_name,
                   <<"License URL: ">> \o Or(component.license_url, Str_NA),
                   <<"Homepage: ">> \o Or(component.homepage, Str_NA),
                   <<>> >>
        notes == IF Truthy(component.notes)
                 THEN << <<"Notes: ">> \o component.notes >> ELSE <<>>
        dirs == IF component.source = Str_Bundled /\ tp.exists
                THEN {p \in tp.items : p.name = component.name /\ p.is_dir} ELSE {}
        text == IF dirs = {} THEN <<>>
                ELSE LET item == CHOOSE p \in dirs : TRUE IN
                     IF LicFile(item) = 0 THEN <<>>
                     ELSE << <<>>, <<"----- Bundled license text -----">>, <<>>,
                             item.files[LICENSE_FILE_CANDIDATES[LicFile(item)]] >>
    IN  RStripLines(head \o notes \o text)

\* write_license_file: the output directory afterwards
write_license_file(component, out_dir, tp) ==
    [f \in DOMAIN out_dir \cup {file_name(component)} |->
        IF f = file_name(component) THEN LicenseBody(component, tp) ELSE out_dir[f]]

\* One row of the report's table
NoticeRow(comp) ==
    <<comp.source, comp.name, comp.version, comp.license_name, Or(comp.license_url, <<>>)>>

\* The text generate() writes to NOTICE_PATH, as its lines
NoticeLines(comps) ==
    << <<"# THIRD_PARTY_NOTICES">>, <<>>,
       <<"This file is generated by scripts/generate_third_party_notices.py.">>, <<>>,
       <<"## Included third-party components">>, <<>>,
       <<"| Source | Name | Version | License | License URL |">>,
       <<"|---|---|---|---|---|">> >>
    \o [i \in DOMAIN comps |-> NoticeRow(comps[i])]
    \o << <<>>, <<"## Per-component license files">>, <<>>,
          <<"Detailed records are written to the LICENSES/ directory.">> >>

\* Component(...) of the loop over packages, for one package and its metadata
NuGetComponent(pkg, meta) ==
    Component(pkg[1], pkg[2], Str_NuGet, meta.license_name, meta.license_url,
              meta.homepage, meta.notes)

ComponentKey(c) == <<c.source, Lower(c.name), c.version>>

----------------------------------------------------------------------------
(* Inputs of the generator *)

MaxFiles == 2   \* manifest files under src/
MaxRuns == 2    \* runs of the generator in one behaviour

\* The <PackageReference> nodes a manifest may hold
PackageReferences ==
    << Ref(<<"a">>, <<"1">>, None),
       Ref(<<"A">>, <<"1">>, None),
       Ref(<<" ", "a">>, None, <<"1", " ">>),
       Ref(<<"a", "/", "b">>, <<"1">>, None),
       Ref(<<"a", "@", "b">>, <<"1">>, None),
       Ref(<<" ">>, <<"1">>, None),
       Ref(<<"a">>, <<" ">>, None),
       Ref(None, <<"1">>, <<"1">>) >>

\* The manifest files: one that ET.parse rejects, one without a reference, and
\* one per node above
CsprojFiles ==
    << [well_formed |-> FALSE, refs |-> <<>>], [well_formed |-> TRUE, refs |-> <<>>] >>
    \o [i \in DOMAIN PackageReferences |->
            [well_formed |-> TRUE, refs |-> <<PackageReferences[i]>>]]

RECURSIVE SeqsUpTo(_, _)
SeqsUpTo(S, n) ==
    IF n = 0 THEN {<<>>}
    ELSE SeqsUpTo(S, n - 1) \cup {Append(q, x) : q \in SeqsUpTo(S, n - 1), x \in S}

\* The manifest trees: up to MaxFiles files, several of one content allowed,
\* listed in one order (read_csproj_packages unions what the files hold)
CsprojTrees ==
    {[i \in DOMAIN ks |-> CsprojFiles[ks[i]]] :
        ks \in {q \in SeqsUpTo(DOMAIN CsprojFiles, MaxFiles) :
                    \A i, j \in DOMAIN q : i < j => q[i] <= q[j]}}

\* The entries root/third_party may hold: two directories whose names differ in
\* case only, one of them with two of the candidate files, and a plain file
BundledDirs ==
    { [name |-> <<"z">>, is_dir |-> TRUE,
       files |-> [n \in {"LICENSE.txt", "COPYING"} |->
                    IF n = "COPYING" THEN <<"GPL text">> ELSE <<"MIT text", "\n">>]],
      [name |-> <<"Z">>, is_dir |-> TRUE, files |-> <<>>] }
PlainFile == [name |-> <<"r">>, is_dir |-> FALSE, files |-> <<>>]

\* third_party at the start: missing, or holding all of the above (EditInputs
\* removes directories)
ThirdPartyTrees ==
    { [exists |-> FALSE, items |-> {}],
      [exists |-> TRUE, items |-> BundledDirs \cup {PlainFile}] }

\* What the registry may answer to a request of the generator: the request
\* fails, or it returns bytes that are no XML document (SpecFetch covers the
\* well-formed documents)
GenResponses == {UrlError, BadXml}

NoFile == [exists |-> FALSE, lines |-> <<>>]
NoOutput == [valid |-> FALSE, dir |-> <<>>, notice |-> NoFile]
Output(dir, notice) == [valid |-> TRUE, dir |-> dir, notice |-> notice]

\* f.name matches "*.txt"
IsTxt(f) == Len(f) >= 4 /\ SubSeq(f, Len(f) - 3, Len(f)) = <<".", "t", "x", "t">>

----------------------------------------------------------------------------
(* generate() *)

\* A subprocess.CompletedProcess, and the value of a variable not yet assigned
CompletedProcess(returncode, stdout, stderr) ==
    [ran |-> TRUE, returncode |-> returncode, stdout |-> stdout, stderr |-> stderr]
NotRun == [ran |-> FALSE, returncode |-> 0, stdout |-> <<>>, stderr |-> <<>>]
CleanTree == [drift |-> FALSE, untracked |-> {}]

\* The parts of the state a specification leaves alone
FetchIdle == f_resp = UrlError /\ f_out = <<>>
CheckIdle ==
    /\ chk_pc = "off" /\ chk_gen = NotRun /\ chk_diff = NotRun /\ chk_others = NotRun
    /\ chk_ran = <<>> /\ chk_stdout = <<>> /\ chk_tree = CleanTree /\ chk_ret = <<>>
GenIdle ==
    /\ csprojs = <<>> /\ third_party = [exists |-> FALSE, items |-> {}]
    /\ registry = <<>> /\ licenses_dir = <<>> /\ notice_file = NoFile /\ pc = "off"
    /\ packages = <<>> /\ components = <<>> /\ idx = 1
    /\ run_start = Output(<<>>, NoFile) /\ runs = 0
    /\ last_out = NoOutput /\ prev_out = NoOutput

InitGen ==
    /\ csprojs \in CsprojTrees
    /\ third_party \in ThirdPartyTrees
    /\ registry = <<>>
    /\ licenses_dir = <<>>
    /\ notice_file = NoFile
    /\ pc = "start"
    /\ packages = <<>>
    /\ components = <<>>
    /\ idx = 1
    /\ run_start = Output(<<>>, NoFile)
    /\ runs = 0
    /\ last_out = NoOutput
    /\ prev_out = NoOutput
    /\ FetchIdle
    /\ CheckIdle

\* Faulty variant: the old license files are deleted before the manifests are read
Collect_UnlinkFirst ==
    /\ pc \in {"start", "done", "crashed"}
    /\ runs < MaxRuns
    /\ runs' = runs + 1
    /\ run_start' = Output(licenses_dir, notice_file)
    /\ licenses_dir' = [f \in {g \in DOMAIN licenses_dir : ~IsTxt(g)} |-> licenses_dir[f]]
    /\ \E r \in read_csproj_packages(csprojs) :
        IF r.raised
        THEN pc' = "crashed" /\ UNCHANGED <<packages, components, idx>>
        ELSE pc' = "fetch" /\ packages' = r.value /\ components' = <<>> /\ idx' = 1
    /\ UNCHANGED <<csprojs, third_party, registry, notice_file,
                   last_out, prev_out, fetch_vars, chk_vars>>

\* main() calls generate(): line 154, read_csproj_packages
Collect ==
    /\ pc \in {"start", "done", "crashed"}
    /\ runs < MaxRuns
    /\ runs' = runs + 1
    /\ run_start' = Output(licenses_dir, notice_file)
    /\ \E r \in read_csproj_packages(csprojs) :
        IF r.raised
        THEN pc' = "crashed" /\ UNCHANGED <<packages, components, idx>>
        ELSE pc' = "fetch" /\ packages' = r.value /\ components' = <<>> /\ idx' = 1
    /\ UNCHANGED <<csprojs, third_party, registry, licenses_dir, notice_file,
                   last_out, prev_out, fetch_vars, chk_vars>>

\* lines 157-169, one iteration: the registry answers a URL it was not asked
\* before with any response, and a URL it was asked before as it did then
Fetch ==
    /\ pc = "fetch"
    /\ idx <= Len(packages)
    /\ LET url == nuspec_url(packages[idx][1], packages[idx][2]) IN
       \E resp \in (IF url \in DOMAIN registry THEN {registry[url]} ELSE GenResponses) :
        /\ registry' = [u \in DOMAIN registry \cup {url} |->
                            IF u = url THEN resp ELSE registry[u]]
        /\ LET meta == fetch_nuspec_metadata(resp) IN
           IF meta.raised
           THEN pc' = "crashed" /\ UNCHANGED <<components, idx>>
           ELSE /\ components' =
                    Append(components, NuGetComponent(packages[idx], meta.value))
                /\ idx' = idx + 1
                /\ pc' = pc
    /\ UNCHANGED <<csprojs, third_party, licenses_dir, notice_file, packages,
                   run_start, runs, last_out, prev_out, fetch_vars, chk_vars>>

\* lines 171-172
Scan ==
    /\ pc = "fetch"
    /\ idx > Len(packages)
    /\ \E bundled \in detect_bundled_components(third_party) :
        LET all == components \o bundled IN
        components' = SortedBy(all, [i \in DOMAIN all |-> ComponentKey(all[i])])
    /\ pc' = "unlink"
    /\ UNCHANGED <<csprojs, third_party, registry, licenses_dir, notice_file, packages,
                   idx, run_start, runs, last_out, prev_out, fetch_vars, chk_vars>>

\* Faulty variant: the files of the earlier run are kept
Unlink_KeepOld ==
    /\ pc = "unlink"
    /\ idx' = 1
    /\ pc' = "write"
    /\ UNCHANGED <<csprojs, third_party, registry, licenses_dir, notice_file, packages,
                   components, run_start, runs, last_out, prev_out, fetch_vars, chk_vars>>

\* lines 174-177
Unlink ==
    /\ pc = "unlink"
    /\ licenses_dir' = [f \in {g \in DOMAIN licenses_dir : ~IsTxt(g)} |-> licenses_dir[f]]
    /\ idx' = 1
    /\ pc' = "write"
    /\ UNCHANGED <<csprojs, third_party, registry, notice_file, packages, components,
                   run_start, runs, last_out, prev_out, fetch_vars, chk_vars>>

\* lines 179-180, one iteration
WriteLicense ==
    /\ pc = "write"
    /\ idx <= Len(components)
    /\ licenses_dir' = write_license_file(components[idx], licenses_dir, third_party)
    /\ idx' = idx + 1
    /\ UNCHANGED <<csprojs, third_party, registry, notice_file, pc, packages, components,
                   run_start, runs, last_out, prev_out, fetch_vars, chk_vars>>

\* lines 182-205, and generate() returns
WriteNotice ==
    /\ pc = "write"
    /\ idx > Len(components)
    /\ notice_file' = [exists |-> TRUE, lines |-> NoticeLines(components)]
    /\ pc' = "done"
    /\ prev_out' = last_out
    /\ last_out' = Output(licenses_dir, notice_file')
    /\ UNCHANGED <<csprojs, third_party, registry, licenses_dir, packages, components,
                   idx, run_start, runs, fetch_vars, chk_vars>>

\* Between two runs a manifest file is removed or added, or a directory of
\* third_party is removed
EditInputs ==
    /\ pc \in {"done", "crashed"}
    /\ runs < MaxRuns
    /\ \/ /\ csprojs # <<>>
          /\ csprojs' = SubSeq(csprojs, 1, Len(csprojs) - 1)
          /\ UNCHANGED third_party
       \/ /\ Len(csprojs) < MaxFiles
          /\ \E t \in CsprojTrees :
                /\ Len(t) = Len(csprojs) + 1
                /\ \E k \in DOMAIN t :
                    csprojs = SubSeq(t, 1, k - 1) \o SubSeq(t, k + 1, Len(t))
                /\ csprojs' = t
          /\ UNCHANGED third_party
       \/ /\ \E p \in {q \in third_party.items : q.is_dir} :
                third_party' = [third_party EXCEPT !.items = @ \ {p}]
          /\ UNCHANGED csprojs
    /\ last_out' = NoOutput
    /\ pc' = "start"
    /\ UNCHANGED <<registry, licenses_dir, notice_file, packages, components, idx,
                   run_start, runs, prev_out, fetch_vars, chk_vars>>

NextGen ==
    \/ Collect
    \/ Fetch
    \/ Scan
    \/ Unlink
    \/ WriteLicense
    \/ WriteNotice
    \/ EditInputs

Spec == InitGen /\ [][NextGen]_vars

----------------------------------------------------------------------------
(* fetch_nuspec_metadata on its own, over the documents the registry may hold *)

LicenseTexts == {None, <<>>, <<" ">>, <<"M","I","T">>, <<" ","M","I","T","\n">>}
LicenseTypes ==
    {None, Str_expression, <<"E","x","p","r","e","s","s","i","o","n">>, Str_file,
     <<"F","I","L","E">>, <<"u","r","l">>}
LicenseNodes == {NoNode} \cup {Node(t, k) : t \in LicenseTexts, k \in LicenseTypes}
UrlNodes == {NoNode, Node(<<"u">>, None), Node(<<" ">>, None)}
HomeNodes == {NoNode, Node(<<"h", " ">>, None)}

FetchResponses ==
    {UrlError, BadXml}
    \cup {Nuspec(h, l, u) : h \in HomeNodes, l \in LicenseNodes, u \in UrlNodes}

InitFetch ==
    /\ f_resp \in FetchResponses
    /\ f_out = <<>>
    /\ GenIdle
    /\ CheckIdle

\* One call of fetch_nuspec_metadata
FetchCall ==
    /\ f_out = <<>>
    /\ f_out' = <<fetch_nuspec_metadata(f_resp)>>
    /\ UNCHANGED <<f_resp, gen_vars, chk_vars>>

NextFetch == FetchCall

SpecFetch == InitFetch /\ [][NextFetch]_vars

----------------------------------------------------------------------------
(* check_third_party_notices.py: main() *)

Cmd_generator == "scripts/generate_third_party_notices.py"
Cmd_diff == "git diff"
Cmd_ls_files == "git ls-files"
Msg_OutOfDate ==
    <<"[ERROR] THIRD_PARTY_NOTICES.md and/or LICENSES are out of date. Run generator and commit changes.">>
Msg_Untracked == <<"[ERROR] Untracked notices/license files detected:">>
Msg_OK == <<"[OK] THIRD_PARTY_NOTICES and LICENSES are present and up-to-date.">>

\* How the generator's process may end (a negative code: killed by a signal),
\* and the working tree it leaves
GeneratorRuns ==
    {CompletedProcess(0, <<"Generated">>, <<>>)}
    \cup {CompletedProcess(rc, <<>>, <<"Traceback">>) : rc \in {1, 2, -9}}
WorkingTrees ==
    {[drift |-> d, untracked |-> u] :
        d \in BOOLEAN,
        u \in SUBSET {<<"L","I","C","E","N","S","E","S","/","a",".","t","x","t">>,
                      <<"L","I","C","E","N","S","E","S","/","b">>,
                      <<"T","H","I","R","D","_","P","A","R","T","Y","_","N","O","T","I","C",
                        "E","S",".","m","d">>}}

\* git diff --exit-code on the tree: 1 when a tracked file differs, 0 when none
\* does, or git fails
GitDiffRuns(tree) ==
    {CompletedProcess(IF tree.drift THEN 1 ELSE 0,
                      IF tree.drift THEN <<"diff --git">> ELSE <<>>, <<>>),
     CompletedProcess(128, <<>>, <<"fatal:">>),
     CompletedProcess(-9, <<>>, <<>>)}

\* The listing git ls-files --others prints: a line per file
RECURSIVE Listing(_)
Listing(files) ==
    IF files = {} THEN <<>>
    ELSE LET f == CHOOSE x \in files : \A y \in files : x = y \/ TupleLess(<<x>>, <<y>>)
         IN  f \o <<"\n">> \o Listing(files \ {f})

\* git ls-files --others --exclude-standard: lists the untracked files, or fails
GitLsFilesRuns(tree) ==
    {CompletedProcess(0, Listing(tree.untracked), <<>>),
     CompletedProcess(128, <<>>, <<"fatal:">>),
     CompletedProcess(-9, <<>>, <<>>)}

InitCheck ==
    /\ chk_pc = "generate"
    /\ chk_gen = NotRun /\ chk_diff = NotRun /\ chk_others = NotRun
    /\ chk_ran = <<>>
    /\ chk_stdout = <<>>
    /\ chk_tree = CleanTree
    /\ chk_ret = <<>>
    /\ GenIdle
    /\ FetchIdle

\* Faulty variant: a generator killed by a signal (a negative code) is taken for a success
GenFailed_PositiveOnly(gen) == gen.returncode > 0

\* line 19
GenFailed(gen) == gen.returncode # 0

\* line 23
DiffFailed(diff) == diff.returncode # 0

\* line 30
UntrackedFound(others) == others.returncode = 0 /\ Truthy(Strip(others.stdout))

\* lines 16-20
CheckGenerate ==
    /\ chk_pc = "generate"
    /\ \E gen \in GeneratorRuns, tree \in WorkingTrees :
        /\ chk_gen' = gen
        /\ chk_tree' = tree
        /\ chk_ran' = Append(chk_ran, Cmd_generator)
        /\ chk_stdout' = chk_stdout \o (IF gen.stdout = <<>> THEN <<>> ELSE <<gen.stdout>>)
        /\ IF GenFailed(gen)
           THEN chk_pc' = "returned" /\ chk_ret' = <<gen.returncode>>
           ELSE chk_pc' = "diff" /\ chk_ret' = chk_ret
    /\ UNCHANGED <<chk_diff, chk_others, gen_vars, fetch_vars>>

\* lines 22-27
CheckDiff ==
    /\ chk_pc = "diff"
    /\ \E diff \in GitDiffRuns(chk_tree) :
        /\ chk_diff' = diff
        /\ chk_ran' = Append(chk_ran, Cmd_diff)
        /\ IF DiffFailed(diff)
           THEN /\ chk_stdout' = chk_stdout \o <<Msg_OutOfDate>>
                                 \o (IF diff.stdout = <<>> THEN <<>> ELSE <<diff.stdout>>)
                /\ chk_pc' = "returned"
                /\ chk_ret' = <<1>>
           ELSE chk_pc' = "others" /\ UNCHANGED <<chk_stdout, chk_ret>>
    /\ UNCHANGED <<chk_gen, chk_others, chk_tree, gen_vars, fetch_vars>>

\* lines 29-36
CheckOthers ==
    /\ chk_pc = "others"
    /\ \E others \in GitLsFilesRuns(chk_tree) :
        /\ chk_others' = others
        /\ chk_ran' = Append(chk_ran, Cmd_ls_files)
        /\ IF UntrackedFound(others)
           THEN /\ chk_stdout' = chk_stdout \o <<Msg_Untracked, Strip(others.stdout)>>
                /\ chk_ret' = <<1>>
           ELSE /\ chk_stdout' = chk_stdout \o <<Msg_OK>>
                /\ chk_ret' = <<0>>
    /\ chk_pc' = "returned"
    /\ UNCHANGED <<chk_gen, chk_diff, chk_tree, gen_vars, fetch_vars>>

NextCheck ==
    \/ CheckGenerate
    \/ CheckDiff
    \/ CheckOthers

SpecCheck == InitCheck /\ [][NextCheck]_vars

----------------------------------------------------------------------------
(* Properties *)

Identity(c) == <<c.source, c.name, c.version>>
FileNames(comps) == {file_name(comps[i]) : i \in DOMAIN comps}
TxtFiles(dir) == {f \in DOMAIN dir : IsTxt(f)}
\* The table rows of a report: what lies between its 8 fixed leading lines and
\* its 4 fixed trailing lines
TableRows(lines) == SubSeq(lines, 9, Len(lines) - 4)
Placeholder(meta) ==
    /\ meta.license_name = Str_UNKNOWN
    /\ meta.license_url = <<>>
    /\ meta.homepage = <<>>
    /\ meta.notes # <<>>

\* C1: fetch_nuspec_metadata never lets an exception out: when the request
\* fails or the returned document cannot be parsed, it returns the UNKNOWN
\* placeholder record with a non-empty note.
C1_FetchNeverRaises ==
    f_out # <<>> =>
        /\ ~f_out[1].raised
        /\ (f_resp.kind = "raises" \/ ~f_resp.well_formed) => Placeholder(f_out[1].value)

\* C2: no pair returned by read_csproj_packages has an empty name or an empty
\* version.
C2_NoBlankPackage ==
    \A i \in DOMAIN packages : packages[i][1] # <<>> /\ packages[i][2] # <<>>

\* C3: after generate(), two components of different identity have different
\* license file names, and the directory holds one license file per component.
C3_NoFilenameCollision ==
    pc = "done" =>
        /\ \A i, j \in DOMAIN components :
            Identity(components[i]) # Identity(components[j])
                => file_name(components[i]) # file_name(components[j])
        /\ Cardinality(TxtFiles(licenses_dir)) = Len(components)

\* C4: the checker returns 0 only if the generator exited 0, no tracked output
\* differs, no untracked output file exists and git ls-files succeeded; it
\* returns the generator's code when generation failed, and 1 whenever there is
\* drift or an untracked file.
C4_ZeroOnlyWhenUpToDate ==
    chk_pc = "returned" =>
        /\ chk_ret = <<0>> =>
            /\ chk_gen.returncode = 0
            /\ ~chk_tree.drift
            /\ chk_tree.untracked = {}
            /\ chk_others.ran /\ chk_others.returncode = 0
        /\ chk_gen.returncode # 0 => chk_ret = <<chk_gen.returncode>>
        /\ (chk_gen.returncode = 0 /\ (chk_tree.drift \/ chk_tree.untracked # {}))
            => chk_ret = <<1>>

\* C5: after a completed run the *.txt files of LICENSES are exactly the file
\* names of the components of that run, and the report has one table row per
\* component of that run, in order.
C5_FullyRegenerated ==
    pc = "done" =>
        /\ TxtFiles(licenses_dir) = FileNames(components)
        /\ notice_file.exists
        /\ Len(TableRows(notice_file.lines)) = Len(components)
        /\ \A i \in DOMAIN components :
            TableRows(notice_file.lines)[i] = NoticeRow(components[i])

\* A second run completed after an edit of the inputs, and a license file of
\* the run before it is gone
C5_Witness ==
    /\ pc = "done"
    /\ runs = 2
    /\ components # <<>>
    /\ \E f \in DOMAIN run_start.dir : f \notin DOMAIN licenses_dir

\* C6: the component list generate() builds holds each identity (source, name,
\* version) at most once and is ordered by (source, lower-cased name, version).
C6_UniqueAndOrdered ==
    pc \in {"unlink", "write", "done"} =>
        \A i, j \in DOMAIN components :
            i < j =>
                /\ Identity(components[i]) # Identity(components[j])
                /\ ~TupleLess(<<components[j].source, Lower(components[j].name),
                                components[j].version>>,
                              <<components[i].source, Lower(components[i].name),
                                components[i].version>>)

\* Two manifest files whose references differ in whitespace only gave one
\* package, listed with the two bundled components
C6_Witness ==
    /\ pc = "done"
    /\ Len(csprojs) = 2
    /\ csprojs[1] # csprojs[2]
    /\ \A i \in DOMAIN csprojs : csprojs[i].well_formed /\ PackageSet(<<csprojs[i]>>) # {}
    /\ Len(packages) = 1
    /\ Len(components) = 3

\* The license string C7 expects for a document, given how the type attribute
\* is read (kind)
ExpectedLicense(lic, kind) ==
    LET v == IF lic.present /\ lic.text # None THEN Strip(lic.text) ELSE <<>> IN
    IF v = <<>> THEN Str_UNKNOWN
    ELSE IF kind = Str_expression THEN Str_SPDX \o v
    ELSE IF kind = Str_file THEN Str_LicenseFile \o v
    ELSE v

ExpectedUrl(node) ==
    IF node.present /\ node.text # None THEN Strip(node.text) ELSE <<>>

\* C7 as amended: for a parsed document whose trimmed license text v is not
\* empty, the stored license is "SPDX: v" when the type attribute, compared
\* without regard to case, is "expression", "License file: v" when it is
\* "file", and v otherwise; it is "UNKNOWN" when v is empty, never empty; the
\* license URL is the trimmed text of its own element.
C7_LicenseKindAnyCase ==
    (f_out # <<>> /\ f_resp.kind = "data" /\ f_resp.well_formed) =>
        /\ ~f_out[1].raised
        /\ f_out[1].value.license_name # <<>>
        /\ f_out[1].value.license_name =
            ExpectedLicense(f_resp.license,
                            IF f_resp.license.type = None THEN <<>>
                            ELSE Lower(f_resp.license.type))
        /\ f_out[1].value.license_url = ExpectedUrl(f_resp.licenseUrl)

\* C7 as claimed: the prefixes are given for the types "expression" and "file"
\* exactly, and any other type leaves v unprefixed.
C7_LicenseKindExact ==
    (f_out # <<>> /\ f_resp.kind = "data" /\ f_resp.well_formed) =>
        /\ ~f_out[1].raised
        /\ f_out[1].value.license_name # <<>>
        /\ f_out[1].value.license_name = ExpectedLicense(f_resp.license, f_resp.license.type)
        /\ f_out[1].value.license_url = ExpectedUrl(f_resp.licenseUrl)

\* A document of type "FILE" with a license text and no usable license URL
\* was fetched
C7_Witness ==
    /\ f_out # <<>>
    /\ f_resp.kind = "data" /\ f_resp.well_formed
    /\ f_resp.license.present
    /\ f_resp.license.type = <<"F","I","L","E">>
    /\ f_resp.license.text = <<" ","M","I","T","\n">>
    /\ f_out[1].value.license_name = Str_LicenseFile \o <<"M","I","T">>

\* C8: a run over the inputs of the completed run before it, with the same
\* registry responses, produces the same license files and the same report.
C8_Deterministic ==
    (pc = "done" /\ prev_out.valid) => last_out = prev_out

\* C9: the generator runs first; a failed generator ends the checker with its
\* code and no git command is run; git diff runs only after a successful
\* generation, git ls-files only after a clean diff; "[OK]" is printed only
\* when 0 is returned.
C9_CheckerOrder ==
    /\ \E n \in 0..3 : chk_ran = SubSeq(<<Cmd_generator, Cmd_diff, Cmd_ls_files>>, 1, n)
    /\ Cmd_diff \in Range(chk_ran) => chk_gen.ran /\ chk_gen.returncode = 0
    /\ Cmd_ls_files \in Range(chk_ran) => chk_diff.ran /\ chk_diff.returncode = 0
    /\ (chk_gen.ran /\ chk_gen.returncode # 0) =>
            /\ chk_pc = "returned"
            /\ chk_ret = <<chk_gen.returncode>>
            /\ chk_ran = <<Cmd_generator>>
    /\ Msg_OK \in Range(chk_stdout) => chk_ret = <<0>>

\* The generator was killed by a signal and the checker returned at once
C9_Witness ==
    /\ chk_pc = "returned"
    /\ chk_gen.returncode < 0
    /\ chk_ran = <<Cmd_generator>>
    /\ chk_ret = <<chk_gen.returncode>>

\* C10: while generate() collects and fetches, and when it ends with an
\* uncaught error there, the license files and the report are as they were
\* when the run began; the report is unchanged until every license file of the
\* run is written.
C10_FailedRunLeavesOutput ==
    /\ pc \in {"fetch", "crashed"} => Output(licenses_dir, notice_file) = run_start
    /\ pc \in {"unlink", "write"} => notice_file = run_start.notice
    /\ pc = "done" => FileNames(components) \subseteq DOMAIN licenses_dir

\* A run ended with an uncaught error while the output of an earlier run exists
C10_Witness ==
    /\ pc = "crashed"
    /\ runs = 2
    /\ run_start.notice.exists
    /\ DOMAIN run_start.dir # {}
    /\ \E u \in DOMAIN registry : registry[u] = BadXml

====
